---- MODULE Spec2Model ----
(***************************************************************************)
(* Oriented bounding box collisions (collider.c / collider.h).             *)
(*                                                                         *)
(* Two colliders a and b are created from (min, max) corner pairs and are  *)
(* then moved by the four mutators and interrogated by the two SAT         *)
(* queries.  Scalars are C floats in the source; here a float is the       *)
(* integer number of 1/One units it holds, and the inputs are chosen so    *)
(* that every float operation of the source is exact on them: coordinates  *)
(* are small integers, and rotation angles are whole quarter turns or the  *)
(* angle of the 3-4-5 triangle (cos = 3/5, sin = 4/5).  A product or a     *)
(* quotient that would not be exact has no value.                          *)
(***************************************************************************)
EXTENDS Integers, Sequences, FiniteSets, TLC

COLLIDER_VERTEX_COUNT == 8

\* Largest absolute coordinate the translation mutators are driven to.
MaxPos == 1

(***************************************************************************)
(* float arithmetic: the float 1.0f, the float of an integer literal, and  *)
(* the operators * and /                                                   *)
(***************************************************************************)
One == 5 * 5 * 5 * 5 * 5

F(n) == n * One

\* the value of a product or quotient that is not a whole number of units
Inexact(n) == CHOOSE r \in {} : r * One = n

Mul(p, q) ==
    IF p = 0 \/ q = 0 THEN 0
    ELSE IF (p * q) % One = 0 THEN (p * q) \div One
    ELSE Inexact(p * q)

Div(p, q) == CHOOSE r \in {(p * One) \div q} : r * q = p * One

(***************************************************************************)
(* raymath value types and helpers, as called from collider.c.  A Matrix   *)
(* is its sixteen fields m0..m15, indexed 0..15.                           *)
(***************************************************************************)
Vec3(px, py, pz) == [x |-> px, y |-> py, z |-> pz]

\* the vector of three integer literals
V(px, py, pz) == Vec3(F(px), F(py), F(pz))

Vector3Zero == Vec3(0, 0, 0)

fabs(v) == IF v < 0 THEN -v ELSE v

fmin(p, q) == IF p < q THEN p ELSE q

fmax(p, q) == IF p > q THEN p ELSE q

\* sqrtf on the squares of the multiples of 1/5 up to 2, which are the
\* lengths the model's inputs produce
sqrtf(n) == CHOOSE r \in {k * (One \div 5) : k \in 0..10} : r * r = n * One

\* An angle is given as <<5 cos, 5 sin>>.
sinf(ang) == ang[2] * (One \div 5)

cosf(ang) == ang[1] * (One \div 5)

MatrixIdentity == [i \in 0..15 |-> IF i \in {0, 5, 10, 15} THEN One ELSE 0]

MatrixTranslate(px, py, pz) ==
    [i \in 0..15 |-> CASE i = 12 -> px [] i = 13 -> py [] i = 14 -> pz
                       [] i \in {0, 5, 10, 15} -> One [] OTHER -> 0]

\* result.m[4r+c] = sum over k of left.m[4r+k] * right.m[4k+c]
MatrixMultiply(left, right) ==
    [i \in 0..15 |->
        LET r == i \div 4
            c == i % 4
        IN  Mul(left[4*r], right[c]) + Mul(left[4*r + 1], right[4 + c])
            + Mul(left[4*r + 2], right[8 + c]) + Mul(left[4*r + 3], right[12 + c])]

\* Rotation by ang about axis (normalized when its length is neither 0
\* nor 1).
MatrixRotate(axis, ang) ==
    LET lengthSquared == Mul(axis.x, axis.x) + Mul(axis.y, axis.y)
                         + Mul(axis.z, axis.z)
        len == IF lengthSquared # One /\ lengthSquared # 0
               THEN sqrtf(lengthSquared) ELSE One
        x == Div(axis.x, len)
        y == Div(axis.y, len)
        z == Div(axis.z, len)
        sinres == sinf(ang)
        cosres == cosf(ang)
        t == One - cosres
    IN  [i \in 0..15 |->
            CASE i = 0 -> Mul(Mul(x, x), t) + cosres
              [] i = 1 -> Mul(Mul(y, x), t) + Mul(z, sinres)
              [] i = 2 -> Mul(Mul(z, x), t) - Mul(y, sinres)
              [] i = 4 -> Mul(Mul(x, y), t) - Mul(z, sinres)
              [] i = 5 -> Mul(Mul(y, y), t) + cosres
              [] i = 6 -> Mul(Mul(z, y), t) + Mul(x, sinres)
              [] i = 8 -> Mul(Mul(x, z), t) + Mul(y, sinres)
              [] i = 9 -> Mul(Mul(y, z), t) - Mul(x, sinres)
              [] i = 10 -> Mul(Mul(z, z), t) + cosres
              [] i = 15 -> One
              [] OTHER -> 0]

Vector3Transform(v, mat) ==
    Vec3(Mul(mat[0], v.x) + Mul(mat[4], v.y) + Mul(mat[8], v.z) + mat[12],
         Mul(mat[1], v.x) + Mul(mat[5], v.y) + Mul(mat[9], v.z) + mat[13],
         Mul(mat[2], v.x) + Mul(mat[6], v.y) + Mul(mat[10], v.z) + mat[14])

Vector3DotProduct(v1, v2) == Mul(v1.x, v2.x) + Mul(v1.y, v2.y) + Mul(v1.z, v2.z)

Vector3CrossProduct(v1, v2) ==
    Vec3(Mul(v1.y, v2.z) - Mul(v1.z, v2.y),
         Mul(v1.z, v2.x) - Mul(v1.x, v2.z),
         Mul(v1.x, v2.y) - Mul(v1.y, v2.x))

\* A zero-length vector is returned unchanged.
Vector3Normalize(v) ==
    LET len == sqrtf(Mul(v.x, v.x) + Mul(v.y, v.y) + Mul(v.z, v.z))
    IN  IF len = 0 THEN v ELSE Vec3(Div(v.x, len), Div(v.y, len), Div(v.z, len))

Vector3Scale(v, s) == Vec3(Mul(v.x, s), Mul(v.y, s), Mul(v.z, s))

\* Component-wise comparison within EPSILON; equality on exact values.
Vector3Equals(p, q) == p.x = q.x /\ p.y = q.y /\ p.z = q.z

(***************************************************************************)
(* Collider transformations                                                *)
(***************************************************************************)
\* UpdateColliderGlobalVerts with the product taken translate-then-rotate
UpdateColliderGlobalVertsSwapped(c) ==
    LET matTemp == MatrixMultiply(c.matTranslate, c.matRotate)
    IN  [c EXCEPT !.vertGlobal =
            [i \in 0..(COLLIDER_VERTEX_COUNT - 1) |->
                Vector3Transform(c.vertLocal[i], matTemp)]]

UpdateColliderGlobalVerts(c) ==
    LET matTemp == MatrixMultiply(c.matRotate, c.matTranslate)
    IN  [c EXCEPT !.vertGlobal =
            [i \in 0..(COLLIDER_VERTEX_COUNT - 1) |->
                Vector3Transform(c.vertLocal[i], matTemp)]]

CreateCollider(min, max) ==
    UpdateColliderGlobalVerts(
        [vertLocal |-> [i \in 0..(COLLIDER_VERTEX_COUNT - 1) |->
                          Vec3(IF i \div 4 = 0 THEN min.x ELSE max.x,
                               IF (i \div 2) % 2 = 0 THEN min.y ELSE max.y,
                               IF i % 2 = 0 THEN min.z ELSE max.z)],
         vertGlobal |-> [i \in 0..(COLLIDER_VERTEX_COUNT - 1) |-> Vector3Zero],
         matRotate |-> MatrixIdentity,
         matTranslate |-> MatrixIdentity])

SetRotation(c, axis, ang) ==
    UpdateColliderGlobalVerts([c EXCEPT !.matRotate = MatrixRotate(axis, ang)])

AddRotation(c, axis, ang) ==
    LET matTemp == MatrixRotate(axis, ang)
    IN  UpdateColliderGlobalVerts(
            [c EXCEPT !.matRotate = MatrixMultiply(c.matRotate, matTemp)])

SetTranslation(c, pos) ==
    UpdateColliderGlobalVerts(
        [c EXCEPT !.matTranslate = MatrixTranslate(pos.x, pos.y, pos.z)])

\* AddTranslation overwriting the translation instead of composing onto it
AddTranslationOverwrite(c, pos) ==
    UpdateColliderGlobalVerts(
        [c EXCEPT !.matTranslate = MatrixTranslate(pos.x, pos.y, pos.z)])

AddTranslation(c, pos) ==
    LET matTemp == MatrixTranslate(pos.x, pos.y, pos.z)
    IN  UpdateColliderGlobalVerts(
            [c EXCEPT !.matTranslate = MatrixMultiply(c.matTranslate, matTemp)])

GetColliderTransform(c) == MatrixMultiply(c.matRotate, c.matTranslate)

(***************************************************************************)
(* Collision detection                                                     *)
(***************************************************************************)
\* The 15 test vectors, indexed 0..14 as the buffer vec[] is.
GetCollisionVectors(a, b) ==
    LET x == V(1, 0, 0)
        y == V(0, 1, 0)
        z == V(0, 0, 1)
        vec0 == Vector3Transform(x, a.matRotate)
        vec1 == Vector3Transform(y, a.matRotate)
        vec2 == Vector3Transform(z, a.matRotate)
        vec3 == Vector3Transform(x, b.matRotate)
        vec4 == Vector3Transform(y, b.matRotate)
        vec5 == Vector3Transform(z, b.matRotate)
        face == <<vec0, vec1, vec2, vec3, vec4, vec5>>
    IN  [i \in 0..14 |->
            IF i < 6 THEN face[i + 1]
            ELSE LET j == (i - 6) \div 3
                     k == 3 + ((i - 6) % 3)
                 IN  IF Vector3Equals(face[j + 1], face[k + 1]) THEN x
                     ELSE Vector3Normalize(
                              Vector3CrossProduct(face[j + 1], face[k + 1]))]

RECURSIVE ProjectionLoop(_, _, _, _)
ProjectionLoop(c, vec, i, bounds) ==
    IF i >= COLLIDER_VERTEX_COUNT THEN bounds
    ELSE LET proj == Vector3DotProduct(c.vertGlobal[i], vec)
         IN  ProjectionLoop(c, vec, i + 1,
                 [x |-> fmin(bounds.x, proj), y |-> fmax(bounds.y, proj)])

\* min in .x, max in .y
GetColliderProjectionBounds(c, vec) ==
    LET proj == Vector3DotProduct(c.vertGlobal[0], vec)
    IN  ProjectionLoop(c, vec, 1, [x |-> proj, y |-> proj])

\* BoundsOverlap with touching intervals taken as separate
BoundsOverlapStrict(a, b) ==
    IF a.x >= b.y THEN FALSE
    ELSE IF b.x >= a.y THEN FALSE
    ELSE TRUE

\* BoundsOverlap without its second comparison
BoundsOverlapOneCheck(a, b) ==
    IF a.x > b.y THEN FALSE
    ELSE TRUE

BoundsOverlap(a, b) ==
    IF a.x > b.y THEN FALSE
    ELSE IF b.x > a.y THEN FALSE
    ELSE TRUE

\* GetOverlap without its separation checks
GetOverlapUnchecked(a, b) ==
    IF a.x > b.x THEN b.y - a.x
    ELSE b.x - a.y

\* GetOverlap with the two depth expressions exchanged
GetOverlapExchanged(a, b) ==
    IF a.x > b.y THEN 0
    ELSE IF b.x > a.y THEN 0
    ELSE IF a.x > b.x THEN b.x - a.y
    ELSE b.y - a.x

GetOverlap(a, b) ==
    IF a.x > b.y THEN 0
    ELSE IF b.x > a.y THEN 0
    ELSE IF a.x > b.x THEN b.y - a.x
    ELSE b.x - a.y

RECURSIVE TestLoop(_, _, _, _)
TestLoop(a, b, testVec, i) ==
    IF i >= 15 THEN TRUE
    ELSE LET vec == testVec[i]
             apro == GetColliderProjectionBounds(a, vec)
             bpro == GetColliderProjectionBounds(b, vec)
         IN  IF ~BoundsOverlap(apro, bpro) THEN FALSE
             ELSE TestLoop(a, b, testVec, i + 1)

TestColliderPair(a, b) == TestLoop(a, b, GetCollisionVectors(a, b), 0)

OverlapMinInit == 100

RECURSIVE CorrectionLoop(_, _, _, _, _, _)
CorrectionLoop(a, b, testVec, i, overlapMin, overlapDir) ==
    IF i >= 15 THEN Vector3Scale(overlapDir, overlapMin)
    ELSE LET vec == testVec[i]
             apro == GetColliderProjectionBounds(a, vec)
             bpro == GetColliderProjectionBounds(b, vec)
             overlap == GetOverlap(apro, bpro)
         IN  IF overlap = 0 THEN Vector3Zero
             ELSE IF fabs(overlap) < fabs(overlapMin)
                  THEN CorrectionLoop(a, b, testVec, i + 1, overlap, vec)
                  ELSE CorrectionLoop(a, b, testVec, i + 1, overlapMin, overlapDir)

GetCollisionCorrection(a, b) ==
    CorrectionLoop(a, b, GetCollisionVectors(a, b), 0, F(OverlapMinInit), Vector3Zero)

(***************************************************************************)
(* The program: two colliders a and b, the mutators that move them, the    *)
(* SAT queries on the pair, and the caller's resolution step of example.c  *)
(* (corr = GetCollisionCorrection(&a, &b); AddColliderTranslation(&a,      *)
(* corr)).  last records the most recent call and what the queries have    *)
(* returned since the colliders last moved (<<>> when not yet called).     *)
(***************************************************************************)
VARIABLES col, last

vars == <<col, last>>

\* (min, max) corner pairs handed to CreateCollider: the cube of the
\* documented examples, a flat (zero-height) off-centre slab, a thin wide
\* plate, and a large centred cube
Cube == <<V(0, 0, 0), V(2, 2, 2)>>

Slab == <<V(-1, 0, 0), V(3, 1, 0)>>

Plate == <<V(0, -5, -5), V(1, 5, 5)>>

Big == <<V(-50, -50, -50), V(50, 50, 50)>>

Boxes == {Cube, Slab, Big}

SceneryBoxes == {Cube, Plate, Big}

\* rotation axes (one of them not of unit length)
Axes == {V(1, 0, 0), V(0, 1, 0), V(0, 0, 2)}

SceneryAxes == {V(0, 1, 0), V(0, 0, 2)}

\* the whole quarter turns
Angles == {<<5, 0>>, <<0, 5>>, <<-5, 0>>, <<0, -5>>}

\* the quarter turns and the angle of the 3-4-5 triangle
SetupAngles == Angles \cup {<<3, 4>>}

\* translations handed to SetColliderTranslation / AddColliderTranslation
Positions == {V(px, 0, 0) : px \in (-MaxPos)..MaxPos}

Deltas == {V(1, 0, 0), V(-1, 0, 0)}

Translation(c) == Vector3Transform(Vector3Zero, c.matTranslate)

Called(op) == [op |-> op, hit |-> <<>>, corr |-> <<>>]

\* Both colliders as CreateCollider returns them.  Collider a is the body
\* the caller moves (the player of example.c); b is scenery.
Init ==
    /\ \E ba \in Boxes, bb \in SceneryBoxes :
         col = [a |-> CreateCollider(ba[1], ba[2]), b |-> CreateCollider(bb[1], bb[2])]
    /\ last = Called("CreateCollider")

SetColliderRotation(axis, ang) ==
    /\ col' = [col EXCEPT !.a = SetRotation(@, axis, ang)]
    /\ last' = Called("mutator")

AddColliderRotation(axis, ang) ==
    /\ col' = [col EXCEPT !.a = AddRotation(@, axis, ang)]
    /\ last' = Called("mutator")

SetColliderTranslation(pos) ==
    /\ col' = [col EXCEPT !.a = SetTranslation(@, pos)]
    /\ last' = Called("mutator")

AddColliderTranslation(pos) ==
    /\ Translation(AddTranslation(col.a, pos)) \in Positions
    /\ col' = [col EXCEPT !.a = AddTranslation(@, pos)]
    /\ last' = Called("mutator")

\* hit = TestColliderPair(&a, &b)
CallTestColliderPair ==
    /\ last' = [op |-> "TestColliderPair",
                hit |-> <<TestColliderPair(col.a, col.b)>>, corr |-> <<>>]
    /\ UNCHANGED col

\* GetCollisionCorrection resolving the collision in place
CallGetCollisionCorrectionInPlace ==
    /\ last' = [op |-> "GetCollisionCorrection",
                hit |-> <<>>, corr |-> <<GetCollisionCorrection(col.a, col.b)>>]
    /\ col' = [col EXCEPT !.a = AddTranslation(@, GetCollisionCorrection(col.a, col.b))]

\* corr = GetCollisionCorrection(&a, &b)
CallGetCollisionCorrection ==
    /\ last' = [op |-> "GetCollisionCorrection",
                hit |-> <<>>, corr |-> <<GetCollisionCorrection(col.a, col.b)>>]
    /\ UNCHANGED col

\* AddColliderTranslation(&a, corr) with the correction just returned
ApplyCorrection ==
    /\ last.op = "GetCollisionCorrection"
    /\ col' = [col EXCEPT !.a = AddTranslation(@, last.corr[1])]
    /\ last' = [op |-> "ApplyCorrection", hit |-> <<>>, corr |-> last.corr]

Next ==
    \/ \E axis \in Axes, ang \in Angles : SetColliderRotation(axis, ang)
    \/ \E axis \in Axes, ang \in Angles : AddColliderRotation(axis, ang)
    \/ \E pos \in Positions : SetColliderTranslation(pos)
    \/ \E pos \in Deltas : AddColliderTranslation(pos)
    \/ CallTestColliderPair
    \/ CallGetCollisionCorrection
    \/ ApplyCorrection

Spec == Init /\ [][Next]_vars

(***************************************************************************)
(* The queries on their own: both colliders have been created and posed,   *)
(* and the caller only queries the pair and applies the corrections.       *)
(* a has been spun about x by SetColliderRotation, by a quarter turn or by  *)
(* the 3-4-5 angle, turned about y or z by AddColliderRotation (together:  *)
(* each of the 24 axis-aligned orientations and 7 oblique ones) and placed *)
(* by SetColliderTranslation; b has been turned by SetColliderRotation.    *)
(***************************************************************************)
InitSAT ==
    /\ \E ba \in Boxes, bb \in SceneryBoxes, q1 \in SetupAngles,
          ax2 \in SceneryAxes, q2 \in Angles, pa \in Positions,
          bx \in SceneryAxes, bq \in Angles :
         col = [a |-> SetTranslation(
                         AddRotation(
                             SetRotation(CreateCollider(ba[1], ba[2]),
                                         V(1, 0, 0), q1),
                             ax2, q2),
                         pa),
                b |-> SetRotation(CreateCollider(bb[1], bb[2]), bx, bq)]
    /\ last = Called("mutator")

NextSAT ==
    \/ CallTestColliderPair
    \/ CallGetCollisionCorrection
    \/ ApplyCorrection

SpecSAT == InitSAT /\ [][NextSAT]_vars

(***************************************************************************)
(* Vocabulary of the properties, stated on the stored vertices and         *)
(* matrices rather than through the loops of the queries.                  *)
(***************************************************************************)
VertexIndex == 0..(COLLIDER_VERTEX_COUNT - 1)

AxisIndex == 0..14

\* v rotated by the rotation part of matrix r, then offset by the
\* translation part of matrix t
Rotated(v, r) ==
    Vec3(Mul(r[0], v.x) + Mul(r[4], v.y) + Mul(r[8], v.z),
         Mul(r[1], v.x) + Mul(r[5], v.y) + Mul(r[9], v.z),
         Mul(r[2], v.x) + Mul(r[6], v.y) + Mul(r[10], v.z))

Offset(v, t) == Vec3(v.x + t[12], v.y + t[13], v.z + t[14])

\* the candidate axes of the pair (a, b) in the current state
TestVec == GetCollisionVectors(col.a, col.b)

\* the projection interval of collider c on axis vec
Projections(c, vec) == {Vector3DotProduct(c.vertGlobal[i], vec) : i \in VertexIndex}

Lo(c, vec) == CHOOSE m \in Projections(c, vec) : \A n \in Projections(c, vec) : m <= n

Hi(c, vec) == CHOOSE m \in Projections(c, vec) : \A n \in Projections(c, vec) : m >= n

StrictlyDisjoint(vec) ==
    \/ Hi(col.a, vec) < Lo(col.b, vec)
    \/ Hi(col.b, vec) < Lo(col.a, vec)

Touching(vec) ==
    \/ Hi(col.a, vec) = Lo(col.b, vec)
    \/ Hi(col.b, vec) = Lo(col.a, vec)

\* v is along none of the world axes
Oblique(v) == Cardinality({v.x, v.y, v.z} \ {0}) > 1

(***************************************************************************)
(* C1  Transform consistency: in every state reached from CreateCollider   *)
(* by the four mutators, every vertGlobal[i] is vertLocal[i] rotated by    *)
(* the collider's rotation and then offset by its translation; with        *)
(* identity rotation and translation vertGlobal[i] = vertLocal[i].         *)
(***************************************************************************)
TransformConsistency ==
    \A c \in {"a", "b"} :
        /\ \A i \in VertexIndex :
             col[c].vertGlobal[i] =
                 Offset(Rotated(col[c].vertLocal[i], col[c].matRotate),
                        col[c].matTranslate)
        /\ (col[c].matRotate = MatrixIdentity /\ col[c].matTranslate = MatrixIdentity)
             => col[c].vertGlobal = col[c].vertLocal

\* a has been both rotated and translated, and its vertices have moved
TransformConsistencyWitness ==
    /\ last.op = "mutator"
    /\ col.a.matRotate # MatrixIdentity
    /\ col.a.matTranslate # MatrixIdentity
    /\ \A i \in VertexIndex : col.a.vertGlobal[i] # col.a.vertLocal[i]

(***************************************************************************)
(* C2  TestColliderPair(a, b) is false exactly when some one of the 15     *)
(* candidate axes has strictly disjoint projection intervals, and true     *)
(* exactly when the intervals intersect on all 15; intervals that merely   *)
(* touch count as overlapping.                                             *)
(***************************************************************************)
TestIsSeparatingAxisTest ==
    last.op = "TestColliderPair" =>
        last.hit[1] = (\A i \in AxisIndex : ~StrictlyDisjoint(TestVec[i]))

\* the test has answered true for a pair whose intervals only touch on an
\* axis, one that is along no world axis
TestIsSeparatingAxisTestWitness ==
    /\ last.op = "TestColliderPair"
    /\ last.hit[1]
    /\ \E i \in AxisIndex : Oblique(TestVec[i]) /\ Touching(TestVec[i])

(***************************************************************************)
(* C3  Symmetry of the overlap test: TestColliderPair(a, b) =              *)
(* TestColliderPair(b, a) in every pose.                                   *)
(***************************************************************************)
TestSymmetry ==
    last.op = "TestColliderPair" => last.hit[1] = TestColliderPair(col.b, col.a)

\* the test has answered for differently rotated colliders, a's faces not
\* all along the world axes, whose swapped axis list differs from the
\* original one beyond the face normals
TestSymmetryWitness ==
    /\ last.op = "TestColliderPair"
    /\ col.a.matRotate # col.b.matRotate
    /\ \E i \in 0..2 : Oblique(TestVec[i])
    /\ \E i \in 6..14 : GetCollisionVectors(col.b, col.a)[i] # TestVec[i]
    /\ \E i \in 6..14 : TestVec[i] = V(1, 0, 0)

(***************************************************************************)
(* C4  Disjoint boxes get the zero-vector sentinel: whenever               *)
(* TestColliderPair(a, b) is false, GetCollisionCorrection(a, b) returns   *)
(* (0, 0, 0).                                                              *)
(***************************************************************************)
DisjointGivesZero ==
    (last.op = "GetCollisionCorrection" /\ ~TestColliderPair(col.a, col.b))
        => last.corr[1] = Vector3Zero

\* a correction has been asked for a pair separated on some axis, and on
\* none that is along a world axis
DisjointGivesZeroWitness ==
    /\ last.op = "GetCollisionCorrection"
    /\ \E i \in AxisIndex : StrictlyDisjoint(TestVec[i])
    /\ \A i \in AxisIndex : StrictlyDisjoint(TestVec[i]) => Oblique(TestVec[i])
    /\ last.corr[1] = Vector3Zero

(***************************************************************************)
(* Penetration depths, from the projection intervals.                      *)
(***************************************************************************)
\* signed depth on axis vec: 0 when the intervals are strictly disjoint,
\* b.max - a.min when a's minimum exceeds b's, b.min - a.max otherwise
Depth(vec) ==
    IF StrictlyDisjoint(vec) THEN 0
    ELSE IF Lo(col.a, vec) > Lo(col.b, vec)
         THEN Hi(col.b, vec) - Lo(col.a, vec)
         ELSE Lo(col.b, vec) - Hi(col.a, vec)

AllPenetrate == \A i \in AxisIndex : Depth(TestVec[i]) # 0

SetMin(S) == CHOOSE m \in S : \A n \in S : m <= n

MinAbsDepth == SetMin({fabs(Depth(TestVec[i])) : i \in AxisIndex})

\* lowest index, in enumeration order, of an axis of minimal absolute depth
ChosenIndex == SetMin({i \in AxisIndex : fabs(Depth(TestVec[i])) = MinAbsDepth})

\* the shortest displacement along vec, in either direction, that separates
\* a from b
Separation(vec) ==
    LET up == Hi(col.b, vec) - Lo(col.a, vec)
        down == Hi(col.a, vec) - Lo(col.b, vec)
    IN  IF up < down THEN up ELSE down

\* v has length len: it is len or -len times a candidate axis of length 1,
\* which is what a correction is when it is not zero
HasLength(v, len) ==
    IF len = 0 THEN v = Vector3Zero
    ELSE \E i \in AxisIndex :
             /\ Vector3DotProduct(TestVec[i], TestVec[i]) = One
             /\ v \in {Vector3Scale(TestVec[i], len), Vector3Scale(TestVec[i], -len)}

(***************************************************************************)
(* C5  A zero correction means no collision: if                            *)
(* GetCollisionCorrection(a, b) returns the zero vector then               *)
(* TestColliderPair(a, b) is false.                                        *)
(***************************************************************************)
ZeroMeansNoCollision ==
    (last.op = "GetCollisionCorrection" /\ last.corr[1] = Vector3Zero)
        => ~TestColliderPair(col.a, col.b)

(***************************************************************************)
(* C6  Applying the correction resolves the collision: after               *)
(* AddColliderTranslation(a, c) with c = GetCollisionCorrection(a, b)      *)
(* nonzero, the projection intervals on the chosen axis (the axis c lies   *)
(* along) share only an endpoint, and a following                          *)
(* GetCollisionCorrection(a, b) returns the zero vector.                   *)
(***************************************************************************)
CorrectionResolves ==
    (last.op = "ApplyCorrection" /\ last.corr[1] # Vector3Zero) =>
        /\ \E i \in AxisIndex :
             /\ TestVec[i] # Vector3Zero
             /\ Vector3CrossProduct(last.corr[1], TestVec[i]) = Vector3Zero
        /\ \A i \in AxisIndex :
             (/\ TestVec[i] # Vector3Zero
              /\ Vector3CrossProduct(last.corr[1], TestVec[i]) = Vector3Zero)
                 => /\ Touching(TestVec[i])
                    /\ Depth(TestVec[i]) = 0
        /\ GetCollisionCorrection(col.a, col.b) = Vector3Zero

\* a correction along no world axis has been applied to a
CorrectionResolvesWitness ==
    /\ last.op = "ApplyCorrection"
    /\ Oblique(last.corr[1])
    /\ TestColliderPair(col.a, col.b)

(***************************************************************************)
(* C7  The correction is a minimal translation: for a pair with nonzero    *)
(* penetration on all 15 axes, the length of GetCollisionCorrection(a, b)  *)
(* is the minimum over the axes of min(a.max - b.min, b.max - a.min), also *)
(* when one interval contains the other.                                   *)
(***************************************************************************)
CorrectionIsMinimal ==
    (last.op = "GetCollisionCorrection" /\ AllPenetrate) =>
        HasLength(last.corr[1], SetMin({Separation(TestVec[i]) : i \in AxisIndex}))

(***************************************************************************)
(* C8  The queries are read-only and repeatable: TestColliderPair and      *)
(* GetCollisionCorrection leave both colliders unchanged, and a query      *)
(* repeated with no mutator call in between returns what it returned       *)
(* before.                                                                 *)
(***************************************************************************)
QueriesReadOnly ==
    [][last'.op \in {"TestColliderPair", "GetCollisionCorrection"} =>
         /\ col' = col
         /\ last.op = last'.op => last' = last]_vars

\* both queries are about a collider that has been moved since its creation
QueriesReadOnlyWitness ==
    /\ last.op = "GetCollisionCorrection"
    /\ last.corr[1] # Vector3Zero
    /\ col.a.matRotate # MatrixIdentity
    /\ col.a.matTranslate # MatrixIdentity

(***************************************************************************)
(* C9  Axis selection and tie-break: for a pair whose signed depth is      *)
(* nonzero on all 15 axes, whatever its magnitude,                         *)
(* GetCollisionCorrection(a, b) returns axis[i] scaled by depth[i] for the *)
(* lowest index i among the axes of minimal absolute depth.                *)
(***************************************************************************)
AxisSelection ==
    (last.op = "GetCollisionCorrection" /\ AllPenetrate) =>
        last.corr[1] = Vector3Scale(TestVec[ChosenIndex], Depth(TestVec[ChosenIndex]))

(***************************************************************************)
(* C10  Sign convention, as claimed: on the chosen axis, if a's minimum    *)
(* exceeds b's the depth is b.max - a.min and the correction pushes a in   *)
(* the negative axis direction, otherwise the depth is b.min - a.max and   *)
(* the correction pushes a in the positive axis direction; the returned    *)
(* vector is the axis scaled by that depth.                                *)
(***************************************************************************)
SignConventionAsClaimed ==
    (last.op = "GetCollisionCorrection" /\ last.corr[1] # Vector3Zero) =>
        LET vec == TestVec[ChosenIndex]
            push == Vector3DotProduct(last.corr[1], vec)
        IN  IF Lo(col.a, vec) > Lo(col.b, vec)
            THEN /\ last.corr[1] = Vector3Scale(vec, Hi(col.b, vec) - Lo(col.a, vec))
                 /\ push < 0
            ELSE /\ last.corr[1] = Vector3Scale(vec, Lo(col.b, vec) - Hi(col.a, vec))
                 /\ push > 0

(***************************************************************************)
(* C10  Sign convention, as the code has it: on the chosen axis, if a's    *)
(* minimum exceeds b's the depth is b.max - a.min, which is positive, and  *)
(* the correction pushes a in the positive axis direction; otherwise the   *)
(* depth is b.min - a.max, which is negative, and the correction pushes a  *)
(* in the negative axis direction; the returned vector is the axis scaled  *)
(* by that depth.                                                          *)
(***************************************************************************)
SignConvention ==
    (last.op = "GetCollisionCorrection" /\ last.corr[1] # Vector3Zero) =>
        LET vec == TestVec[ChosenIndex]
            push == Vector3DotProduct(last.corr[1], vec)
        IN  IF Lo(col.a, vec) > Lo(col.b, vec)
            THEN /\ last.corr[1] = Vector3Scale(vec, Hi(col.b, vec) - Lo(col.a, vec))
                 /\ push > 0
            ELSE /\ last.corr[1] = Vector3Scale(vec, Lo(col.b, vec) - Hi(col.a, vec))
                 /\ push < 0

\* a correction along no world axis has been returned that pushes a up the
\* chosen axis
SignConventionWitness ==
    /\ last.op = "GetCollisionCorrection"
    /\ Oblique(last.corr[1])
    /\ Lo(col.a, TestVec[ChosenIndex]) > Lo(col.b, TestVec[ChosenIndex])
    /\ Vector3DotProduct(last.corr[1], TestVec[ChosenIndex]) > 0

(***************************************************************************)
(* C11  Axis enumeration never yields a zero-length axis: when a query     *)
(* has enumerated the axes of the pair, there are exactly 15 of them, a's  *)
(* rotated x, y, z, then b's, then for each face normal of a and each of   *)
(* b their normalized cross product; and whenever the two normals are      *)
(* parallel (zero cross product, pointing the same way or opposite ways)   *)
(* the entry is the world x axis (1, 0, 0), never a zero vector.           *)
(***************************************************************************)
AxisEnumeration ==
    last.op \in {"TestColliderPair", "GetCollisionCorrection"} =>
        /\ DOMAIN TestVec = AxisIndex
        /\ TestVec[0] = Rotated(V(1, 0, 0), col.a.matRotate)
        /\ TestVec[1] = Rotated(V(0, 1, 0), col.a.matRotate)
        /\ TestVec[2] = Rotated(V(0, 0, 1), col.a.matRotate)
        /\ TestVec[3] = Rotated(V(1, 0, 0), col.b.matRotate)
        /\ TestVec[4] = Rotated(V(0, 1, 0), col.b.matRotate)
        /\ TestVec[5] = Rotated(V(0, 0, 1), col.b.matRotate)
        /\ \A j \in 0..2, k \in 3..5 :
             LET entry == TestVec[6 + 3*j + (k - 3)]
                 cross == Vector3CrossProduct(TestVec[j], TestVec[k])
             IN  /\ entry # Vector3Zero
                 /\ IF cross = Vector3Zero THEN entry = V(1, 0, 0)
                    ELSE /\ Vector3DotProduct(entry, entry) = One
                         /\ Vector3CrossProduct(entry, cross) = Vector3Zero
                         /\ Vector3DotProduct(entry, cross) > 0

====
